---- MODULE Spec2Model ----
(***************************************************************************)
(* Model of the contested-metric estimation engines of ice-data-explorer:  *)
(*   src/analysis/imputation.py  DataImputationEngine                      *)
(*   src/analysis/bayesian.py    BayesianTrueRange                         *)
(*                                                                         *)
(* Floating point numbers are modelled as fixed-point numbers with Scale   *)
(* units per 1.0, extended with NaN and the two infinities.  A quantity    *)
(* the code computes from the inputs (a prediction, a variance, r^2) is    *)
(* the exact rational result rounded down to a unit.                       *)
(***************************************************************************)
EXTENDS Integers, Sequences, FiniteSets, TLC

(* ------------------------------------------------------------------ *)
(* Bounds of the model                                                  *)
(* ------------------------------------------------------------------ *)
\* number of calendar years the known series may span
NumYears == 4
\* longest list of missing years passed to impute_missing_years
MaxMissing == 2
\* largest n_samples passed to compute_posterior
MaxSamples == 3

\* fixed-point units per 1.0
Scale == 10 * 10

FirstYear == 2018

(* ------------------------------------------------------------------ *)
(* Floats                                                               *)
(* ------------------------------------------------------------------ *)
Fin(n) == [k |-> "fin", v |-> n]
NaN == [k |-> "nan", v |-> 0]
PInf == [k |-> "inf", v |-> 1]
NInf == [k |-> "inf", v |-> -1]

IsFin(x) == x.k = "fin"
IsNaN(x) == x.k = "nan"
IsInf(x) == x.k = "inf"

Sign(n) == IF n > 0 THEN 1 ELSE IF n < 0 THEN -1 ELSE 0
\* sign of a float that is not NaN
FSign(x) == IF IsFin(x) THEN Sign(x.v) ELSE x.v
InfOf(s) == IF s > 0 THEN PInf ELSE NInf

FNeg(x) == IF IsNaN(x) THEN NaN ELSE [k |-> x.k, v |-> -x.v]

FAdd(x, y) ==
  IF IsNaN(x) \/ IsNaN(y) THEN NaN
  ELSE IF IsFin(x) /\ IsFin(y) THEN Fin(x.v + y.v)
  ELSE IF IsInf(x) /\ IsInf(y) THEN (IF x.v = y.v THEN x ELSE NaN)
  ELSE IF IsInf(x) THEN x ELSE y

FSub(x, y) == FAdd(x, FNeg(y))

FMul(x, y) ==
  IF IsNaN(x) \/ IsNaN(y) THEN NaN
  ELSE IF IsFin(x) /\ IsFin(y) THEN Fin((x.v * y.v) \div Scale)
  ELSE IF FSign(x) = 0 \/ FSign(y) = 0 THEN NaN
  ELSE InfOf(FSign(x) * FSign(y))

\* numpy division: x/0 is +-inf, 0/0 is NaN (a warning, no exception)
FDiv(x, y) ==
  IF IsNaN(x) \/ IsNaN(y) THEN NaN
  ELSE IF IsFin(x) /\ IsFin(y) THEN
         (IF y.v = 0 THEN (IF x.v = 0 THEN NaN ELSE InfOf(x.v))
          ELSE Fin((x.v * Scale) \div y.v))
  ELSE IF IsInf(x) /\ IsInf(y) THEN NaN
  ELSE IF IsInf(x) THEN InfOf(x.v * (IF FSign(y) < 0 THEN -1 ELSE 1))
  ELSE Fin(0)

\* IEEE comparisons: every comparison with NaN is false
FLe(x, y) ==
  /\ ~IsNaN(x) /\ ~IsNaN(y)
  /\ \/ IsFin(x) /\ IsFin(y) /\ x.v <= y.v
     \/ IsInf(x) /\ x.v < 0
     \/ IsInf(y) /\ y.v > 0

FLt(x, y) == FLe(x, y) /\ x # y
FGt(x, y) == FLt(y, x)

\* integer square root, rounded down
RECURSIVE ISqrtIn(_, _, _)
\* the largest r in lo..hi with r * r <= n, by bisection
ISqrtIn(n, lo, hi) ==
  IF lo = hi THEN lo
  ELSE LET mid == (lo + hi + 1) \div 2
       IN IF mid * mid <= n THEN ISqrtIn(n, mid, hi) ELSE ISqrtIn(n, lo, mid - 1)
ISqrt(n) == ISqrtIn(n, 0, IF n < 40000 THEN n ELSE 40000)

FSqrt(x) ==
  IF IsNaN(x) THEN NaN
  ELSE IF IsInf(x) THEN (IF x.v > 0 THEN PInf ELSE NaN)
  ELSE IF x.v < 0 THEN NaN
  ELSE Fin(ISqrt(x.v * Scale))

(* ------------------------------------------------------------------ *)
(* Sequences of numbers                                                 *)
(* ------------------------------------------------------------------ *)
RECURSIVE SumSeq(_)
SumSeq(s) == IF s = <<>> THEN 0 ELSE Head(s) + SumSeq(Tail(s))

RECURSIVE MaxSeq(_)
MaxSeq(s) == IF Len(s) = 1 THEN s[1]
             ELSE LET m == MaxSeq(Tail(s)) IN IF s[1] >= m THEN s[1] ELSE m

RECURSIVE Keep(_, _)
\* s[mask]: the entries of s at the positions where mask is TRUE
Keep(s, mask) ==
  IF s = <<>> THEN <<>>
  ELSE (IF Head(mask) THEN <<Head(s)>> ELSE <<>>) \o Keep(Tail(s), Tail(mask))

AllFinite(s) == \A i \in 1..Len(s) : IsFin(s[i])

\* np.var of a float array (population variance), NaN/inf entries poison it
FVar(s) ==
  IF ~AllFinite(s) THEN NaN
  ELSE LET n == Len(s)
           s1 == SumSeq([i \in 1..n |-> s[i].v])
           s2 == SumSeq([i \in 1..n |-> s[i].v * s[i].v])
       IN Fin((n * s2 - s1 * s1) \div (n * n * Scale))

\* np.std
FStd(s) == FSqrt(FVar(s))

(* ------------------------------------------------------------------ *)
(* Input domains                                                        *)
(* ------------------------------------------------------------------ *)
KnownYearChoices == FirstYear .. (FirstYear + NumYears - 1)
\* a value reported for a year: a whole number, or missing (None / NaN)
KnownValueChoices == {NaN, Fin(0), Fin(3 * Scale)}
\* years asked for: inside the known range and up to two years past it
MissingYearChoices == {FirstYear + 1, FirstYear + NumYears, FirstYear + NumYears + 1}
ModelTypeChoices == {"auto", "linear", "exponential", "logistic", "polynomial"}
\* confidence_level, in hundredths
ConfidenceChoices == {-50, 95, 100}
\* confidence_level=0.95, the default of impute_missing_years
ConfidenceDefault == 95

\* ascending sequences of distinct years (the rows of a series, ORDER BY year)
AscendingSeqs(S) ==
  {s \in UNION {[1..n -> S] : n \in 0..Cardinality(S)} :
      \A i \in 1..(Len(s) - 1) : s[i] < s[i + 1]}

\* the known_years a caller passes
KnownYearSeqs == AscendingSeqs(KnownYearChoices)

SeqsUpTo(S, n) == UNION {[1..m -> S] : m \in 0..n}

(* ------------------------------------------------------------------ *)
(* The values a call can produce                                        *)
(* ------------------------------------------------------------------ *)
None == [type |-> "None"]
Returned(v) == [exc |-> "none", val |-> v]
Raised(e) == [exc |-> e, val |-> None]

(* ------------------------------------------------------------------ *)
(* DataImputationEngine.fit_trend                                       *)
(* ------------------------------------------------------------------ *)
\* the mask left out: every entry kept
NotNaNMaskMutant(values) == [i \in 1..Len(values) |-> TRUE]

\* mask = ~np.isnan(values)
NotNaNMask(values) == [i \in 1..Len(values) |-> ~IsNaN(values[i])]

Residuals(values, predict, years) ==
  [i \in 1..Len(years) |-> FSub(values[i], predict[years[i]])]

\* years predict may be asked about
PredictYears == KnownYearChoices \cup MissingYearChoices

\* scipy.stats.linregress followed by the dict of the 'linear' branch.  The
\* known values are whole numbers, so the sums are taken over v \div Scale.
\* slope and intercept are kept as exact fractions over the common
\* denominator n * (n*Sxx - Sx^2); predict is slope * year + intercept.
LinearModel(years, values) ==
  LET n == Len(years)
      y == [i \in 1..n |-> values[i].v \div Scale]
      Sx == SumSeq(years)
      Sy == SumSeq(y)
      Sxx == SumSeq([i \in 1..n |-> years[i] * years[i]])
      Sxy == SumSeq([i \in 1..n |-> years[i] * y[i]])
      Syy == SumSeq([i \in 1..n |-> y[i] * y[i]])
      A == n * Sxy - Sx * Sy
      D == n * Sxx - Sx * Sx
      E == n * Syy - Sy * Sy
      slope == [num |-> n * A, den |-> n * D]
      intercept == [num |-> Sy * D - A * Sx, den |-> n * D]
      predict == [yr \in PredictYears |->
                    Fin(((slope.num * yr + intercept.num) * Scale) \div (n * D))]
  IN [type |-> "linear",
      slope |-> slope,
      intercept |-> intercept,
      \* r_value ** 2; linregress sets r = 0 when the values do not vary
      r_squared |-> IF E = 0 THEN Fin(0) ELSE Fin((A * A * Scale) \div (D * E)),
      predict |-> predict,
      residual_std |-> FStd(Residuals(values, predict, years))]

\* linregress refuses a series whose x values are all identical (a series of
\* distinct years never is)
LinRegressRaises(years) == \A i \in 1..Len(years) : years[i] = years[1]

RECURSIVE Pow2(_)
Pow2(e) == IF e = 0 THEN 1 ELSE 2 * Pow2(e - 1)

\* a * 2^e + c in fixed point, for whole a and c and any integer e
ScaledPow2(a, e) == IF e >= 0 THEN a * Scale * Pow2(e) ELSE (a * Scale) \div Pow2(-e)

\* exp_func(x, a, b, c) = a * exp(b * (x - years[0])) + c, with b in units of ln 2
exp_func(x, p, year0) == Fin(ScaledPow2(p[1], p[2] * (x - year0)) + p[3] * Scale)

\* logistic_func(x, L, k, x0, b) = L / (1 + exp(-k * (x - x0))) + b, k in units of ln 2
logistic_func(x, p) ==
  LET e == p[2] * (x - p[3])
      \* 1 + 2^(-e) = (2^e + 1) / 2^e
      q == IF e >= 0 THEN (p[1] * Scale * Pow2(e)) \div (Pow2(e) + 1)
           ELSE (p[1] * Scale) \div (1 + Pow2(-e))
  IN Fin(q + p[4] * Scale)

\* parameter vectors the optimizer may converge to
ExpParamChoices == {<<1, 1, -1>>, <<0, 0, 3>>}
LogisticParamChoices == {<<6, 0, FirstYear, 0>>, <<4, 1, FirstYear + 1, 0>>}

\* scipy.optimize.curve_fit(f, years, values, p0, maxfev=5000) with a p0 of
\* nparams entries and the default method 'lm': it raises TypeError when
\* there are fewer points than parameters, RuntimeError when the iteration
\* budget runs out, and otherwise returns a parameter vector.
CurveFitOutcomes(nparams, npoints, choices) ==
  IF nparams > npoints THEN {[exc |-> "TypeError", popt |-> <<>>]}
  ELSE {[exc |-> "RuntimeError", popt |-> <<>>]}
         \cup {[exc |-> "none", popt |-> p] : p \in choices}

\* the dict of the 'exponential' / 'logistic' branch for the parameters popt
NonlinearModel(kind, predict, popt, years, values) ==
  LET residuals == Residuals(values, predict, years)
  IN [type |-> kind,
      params |-> popt,
      r_squared |-> FSub(Fin(Scale), FDiv(FVar(residuals), FVar(values))),
      predict |-> predict,
      residual_std |-> FStd(residuals)]

\* except (RuntimeError, ValueError)
CaughtByFallback == {"RuntimeError", "ValueError"}

\* fit_trend(years, values, 'linear') on arrays already stripped of NaN
FitLinear(years, values) ==
  IF LinRegressRaises(years) THEN {Raised("ValueError")}
  ELSE {Returned(LinearModel(years, values))}

\* outcomes of fit_trend tagged with what curve_fit did during the call:
\* "not called", "converged", or the exception it raised
WithOptimizer(outs, cf) ==
  {[exc |-> o.exc, val |-> o.val, curve_fit |-> cf] : o \in outs}

\* the try / except of a nonlinear branch around the curve_fit outcome o,
\* predict being the fitted curve when it converged
TryNonlinear(kind, o, predict, years, values) ==
  IF o.exc = "none"
    THEN WithOptimizer(
           {Returned(NonlinearModel(kind, predict, o.popt, years, values))},
           "converged")
  ELSE IF o.exc \in CaughtByFallback
    THEN WithOptimizer(FitLinear(years, values), o.exc)
  ELSE WithOptimizer({Raised(o.exc)}, o.exc)

ExpNumParams == 3
LogisticNumParams == 4

FitExponential(years, values) ==
  UNION {TryNonlinear("exponential", o,
           [yr \in PredictYears |->
              IF o.exc = "none" THEN exp_func(yr, o.popt, years[1]) ELSE NaN],
           years, values)
         : o \in CurveFitOutcomes(ExpNumParams, Len(years), ExpParamChoices)}

FitLogistic(years, values) ==
  UNION {TryNonlinear("logistic", o,
           [yr \in PredictYears |->
              IF o.exc = "none" THEN logistic_func(yr, o.popt) ELSE NaN],
           years, values)
         : o \in CurveFitOutcomes(LogisticNumParams, Len(years),
                                  LogisticParamChoices)}

MinPoints == 3

\* a mask longer than the array is cut to the array's length
BooleanIndexRaisesMutant(arr, mask) == Len(arr) > Len(mask)

\* arr[mask] with a boolean mask: numpy raises IndexError unless the mask
\* has exactly the length of the array
BooleanIndexRaises(arr, mask) == Len(arr) # Len(mask)

\* a kind that is none of the three fitted as a straight line
OtherKindMutant(ys, vs) == FitLinear(ys, vs)

\* a model_type that matches no branch: the method ends without a return
\* statement, which gives None
OtherKind(ys, vs) == {Returned(None)}

\* the outcomes of fit_trend(years, values, model_type)
fit_trend(years, values, model_type) ==
  LET mask == NotNaNMask(values)
      ys == Keep(years, mask)
      vs == Keep(values, mask)
  IN IF BooleanIndexRaises(years, mask)
       THEN WithOptimizer({Raised("IndexError")}, "not called")
     ELSE IF Len(ys) < MinPoints
       THEN WithOptimizer({Returned(None)}, "not called")
     ELSE IF model_type = "linear"
       THEN WithOptimizer(FitLinear(ys, vs), "not called")
     ELSE IF model_type = "exponential" THEN FitExponential(ys, vs)
     ELSE IF model_type = "logistic" THEN FitLogistic(ys, vs)
     ELSE WithOptimizer(OtherKind(ys, vs), "not called")

(* ------------------------------------------------------------------ *)
(* DataImputationEngine.impute_missing_years                            *)
(* ------------------------------------------------------------------ *)
\* stats.norm.ppf(p) at p = (1 + c/100) / 2 for 0 < c < 100, in fixed point
NormalQuantile(c) ==
  IF c = 50 THEN (67 * Scale) \div 100
  ELSE IF c = 90 THEN (164 * Scale) \div 100
  ELSE IF c = 95 THEN (196 * Scale) \div 100
  ELSE (258 * Scale) \div 100

\* z_score = stats.norm.ppf((1 + confidence_level) / 2): the quantile is
\* antisymmetric about p = 1/2, infinite at p = 0 and p = 1, NaN outside [0, 1]
ZScore(cl) ==
  IF cl > 100 \/ cl < -100 THEN NaN
  ELSE IF cl = 100 THEN PInf
  ELSE IF cl = -100 THEN NInf
  ELSE IF cl = 0 THEN Fin(0)
  ELSE IF cl > 0 THEN Fin(NormalQuantile(cl))
  ELSE Fin(-NormalQuantile(-cl))

\* the clamp at 0 left out
YearsOutMutant(year, max_known) == year - max_known

\* years_out = max(0, year - max_known)
YearsOut(year, max_known) == IF year - max_known > 0 THEN year - max_known ELSE 0

\* 0.15 in fixed point
UncertaintyGrowth == (15 * Scale) \div 100

\* uncertainty_factor = 1 + (years_out * 0.15)
UncertaintyFactor(year, known_yrs) ==
  Fin(Scale + YearsOut(year, MaxSeq(known_yrs)) * UncertaintyGrowth)

\* one entry of predictions
Prediction(model, year, known_yrs, z_score) ==
  LET predicted == model.predict[year]
      uncertainty_factor == UncertaintyFactor(year, known_yrs)
      margin == FMul(FMul(z_score, model.residual_std), uncertainty_factor)
  IN [year |-> year,
      predicted |-> predicted,
      lower |-> FSub(predicted, margin),
      upper |-> FAdd(predicted, margin),
      uncertainty_factor |-> uncertainty_factor,
      is_imputed |-> TRUE]

\* missing_years walked from its end
PredictionsMutant(model, missing_yrs, known_yrs, z_score) ==
  [i \in 1..Len(missing_yrs) |->
     Prediction(model, missing_yrs[Len(missing_yrs) + 1 - i], known_yrs, z_score)]

\* for year in missing_years: predictions.append({...}); years are whole
\* numbers, which int(year) leaves as they are
Predictions(model, missing_yrs, known_yrs, z_score) ==
  [i \in 1..Len(missing_yrs) |->
     Prediction(model, missing_yrs[i], known_yrs, z_score)]

\* the candidates 'auto' tries, in order
AutoCandidates == <<"linear", "exponential">>

\* best_r2 = -1
InitialBestR2 == Fin(-Scale)

\* a candidate taken unless its r_squared is lower than the best so far
BetterOrEqualMutant(best, o) ==
  IF o.val # None /\ ~FLt(o.val.r_squared, best.r2)
    THEN [model |-> o.val, r2 |-> o.val.r_squared]
  ELSE best

\* the r_squared comparison left out: the last fitted model wins
BetterMutant(best, o) ==
  IF o.val # None THEN [model |-> o.val, r2 |-> o.val.r_squared] ELSE best

\* if model and model['r_squared'] > best_r2: one step of the selection loop
Better(best, o) ==
  IF o.val # None /\ FGt(o.val.r_squared, best.r2)
    THEN [model |-> o.val, r2 |-> o.val.r_squared]
  ELSE best

\* the model selection at the head of impute_missing_years: the set of
\* [exc, model, fits], fits being the fit_trend calls made and their outcomes
SelectModel(known_yrs, known_vals, mtype) ==
  IF mtype = "auto" THEN
    UNION {
      IF o1.exc # "none"
        THEN {[exc |-> o1.exc, model |-> None,
               fits |-> <<[model_type |-> AutoCandidates[1], out |-> o1]>>]}
      ELSE
        {LET fits == <<[model_type |-> AutoCandidates[1], out |-> o1],
                       [model_type |-> AutoCandidates[2], out |-> o2]>>
             best0 == [model |-> None, r2 |-> InitialBestR2]
         IN IF o2.exc # "none"
              THEN [exc |-> o2.exc, model |-> None, fits |-> fits]
            ELSE [exc |-> "none",
                  model |-> Better(Better(best0, o1), o2).model,
                  fits |-> fits]
         : o2 \in fit_trend(known_yrs, known_vals, AutoCandidates[2])}
      : o1 \in fit_trend(known_yrs, known_vals, AutoCandidates[1])}
  ELSE
    {[exc |-> o.exc, model |-> o.val,
      fits |-> <<[model_type |-> mtype, out |-> o]>>]
     : o \in fit_trend(known_yrs, known_vals, mtype)}

\* the requested kind echoed in place of the kind of the model used
ReportedKindMutant(model, mtype) == mtype

\* 'model_type': model['type']
ReportedKind(model, mtype) == model.type

\* the years that were left for the fit once the NaN pairs were dropped
HorizonYearsMutant(known_yrs, known_vals) ==
  Keep(known_yrs, NotNaNMask(known_vals))

\* max_known = max(known_years): known_years is the argument as the caller
\* passed it; fit_trend drops the NaN pairs from arrays of its own
HorizonYears(known_yrs, known_vals) == known_yrs

\* the outcomes of impute_missing_years, each with the fits it made
impute_missing_years(known_yrs, known_vals, missing_yrs, mtype, cl) ==
  {IF sel.exc # "none" THEN [out |-> Raised(sel.exc), fits |-> sel.fits]
   ELSE IF sel.model = None THEN [out |-> Returned(None), fits |-> sel.fits]
   ELSE [out |-> Returned(
           [type |-> "imputation",
            model |-> sel.model,
            predictions |-> Predictions(sel.model, missing_yrs,
                                        HorizonYears(known_yrs, known_vals),
                                        ZScore(cl)),
            confidence_level |-> cl,
            model_type |-> ReportedKind(sel.model, mtype),
            r_squared |-> sel.model.r_squared]),
         fits |-> sel.fits]
   : sel \in SelectModel(known_yrs, known_vals, mtype)}

(* ------------------------------------------------------------------ *)
(* BayesianTrueRange                                                    *)
(* ------------------------------------------------------------------ *)
MetricNames == {"Annual Removals", "Family Separations"}
\* a name that is never registered
UnknownName == "Unlisted"
BiasChoices == {"skeptical", "official", "neutral", "optimistic"}
\* (mean, std) pairs a caller may register, whole numbers
OfficialChoices == {[mean |-> 10, std |-> 1]}
IndependentChoices == {[mean |-> 12, std |-> 2], [mean |-> 10, std |-> 0]}

\* a label that is none of the three given the skeptical weights
WeightsUnlabelledMutant(bias) ==
  IF bias = "official" THEN <<(7 * Scale) \div 10, (3 * Scale) \div 10>>
  ELSE IF bias = "neutral" THEN <<(5 * Scale) \div 10, (5 * Scale) \div 10>>
  ELSE <<(3 * Scale) \div 10, (7 * Scale) \div 10>>

\* the skeptical and official weights swapped
WeightsMutant(bias) ==
  IF bias = "skeptical" THEN <<(7 * Scale) \div 10, (3 * Scale) \div 10>>
  ELSE IF bias = "official" THEN <<(3 * Scale) \div 10, (7 * Scale) \div 10>>
  ELSE <<(5 * Scale) \div 10, (5 * Scale) \div 10>>

\* the mixture weights chosen from the bias label, in fixed point
Weights(bias) ==
  IF bias = "skeptical" THEN <<(3 * Scale) \div 10, (7 * Scale) \div 10>>
  ELSE IF bias = "official" THEN <<(7 * Scale) \div 10, (3 * Scale) \div 10>>
  ELSE <<(5 * Scale) \div 10, (5 * Scale) \div 10>>

\* int(x) for the float x = a / b, b > 0: truncation toward zero
IntTrunc(a, b) == IF a >= 0 THEN a \div b ELSE -((-a) \div b)

\* n_official = int(n_samples * w_official)
NOfficial(n_samples, w_official) == IntTrunc(n_samples * w_official, Scale)

\* the second partition truncated on its own, like the first
NIndependentMutant(n_samples, n_official, w_independent) ==
  IntTrunc(n_samples * w_independent, Scale)

\* n_independent = n_samples - n_official
NIndependent(n_samples, n_official, w_independent) == n_samples - n_official

\* values np.random.normal(mean, std) may give: the mean itself when std is
\* 0, otherwise any real; two draws either side of the mean stand for them
NormalDraws(d) ==
  IF d.std = 0 THEN {Fin(d.mean * Scale)}
  ELSE {Fin((d.mean - 2 * d.std) * Scale), Fin((d.mean + 2 * d.std) * Scale)}

\* np.random.shuffle: every reordering of the array
Shuffles(s) == {[i \in 1..Len(s) |-> s[p[i]]] : p \in Permutations(1..Len(s))}

RECURSIVE Insert(_, _)
Insert(x, s) ==
  IF s = <<>> THEN <<x>>
  ELSE IF x.v <= Head(s).v THEN <<x>> \o s
  ELSE <<Head(s)>> \o Insert(x, Tail(s))

RECURSIVE SortAscending(_)
SortAscending(s) == IF s = <<>> THEN <<>> ELSE Insert(Head(s), SortAscending(Tail(s)))

\* np.percentile(samples, q) of a non-empty array, linear interpolation
\* between the two order statistics around position q/100 * (n - 1)
Percentile(samples, q) ==
  LET sorted == SortAscending(samples)
      n == Len(samples)
      pos == q * (n - 1)
      lo == pos \div 100
      hi == IF lo + 1 < n THEN lo + 1 ELSE n - 1
      below == sorted[lo + 1].v
      above == sorted[hi + 1].v
  IN Fin(below + ((above - below) * (pos % 100)) \div 100)

\* the sum of the samples, not divided by their number
FMeanMutant(s) == Fin(SumSeq([i \in 1..Len(s) |-> s[i].v]))

\* np.mean
FMean(s) == Fin(SumSeq([i \in 1..Len(s) |-> s[i].v]) \div Len(s))

\* ci_90 and ci_50 built from each other's percentiles
PosteriorMutant(samples, metric, w) ==
  [type |-> "posterior",
   samples |-> samples,
   mean |-> FMean(samples),
   median |-> Percentile(samples, 50),
   std |-> FStd(samples),
   ci_90 |-> <<Percentile(samples, 25), Percentile(samples, 75)>>,
   ci_50 |-> <<Percentile(samples, 5), Percentile(samples, 95)>>,
   official |-> metric.official,
   independent |-> metric.independent,
   weights |-> <<Fin(w[1]), Fin(w[2])>>]

\* the dict compute_posterior returns for the shuffled samples
Posterior(samples, metric, w) ==
  [type |-> "posterior",
   samples |-> samples,
   mean |-> FMean(samples),
   median |-> Percentile(samples, 50),
   std |-> FStd(samples),
   ci_90 |-> <<Percentile(samples, 5), Percentile(samples, 95)>>,
   ci_50 |-> <<Percentile(samples, 25), Percentile(samples, 75)>>,
   official |-> metric.official,
   independent |-> metric.independent,
   weights |-> <<Fin(w[1]), Fin(w[2])>>]

NothingDrawn == [n_official |-> 0, n_independent |-> 0]

\* the membership test left out: the lookup of the metric raises KeyError
NotFoundMutant == {[out |-> Raised("KeyError"), drawn |-> NothingDrawn]}

\* if metric_name not in self.contested_metrics: return None
NotFound == {[out |-> Returned(None), drawn |-> NothingDrawn]}

\* the outcomes of compute_posterior(metric_name, n_samples) on the registry
\* metrics, each with the number of samples drawn from either distribution
compute_posterior(metrics, metric_name, n_samples) ==
  IF metric_name \notin DOMAIN metrics THEN NotFound
  ELSE
    LET metric == metrics[metric_name]
        w == Weights(metric.prior_bias)
        n_official == NOfficial(n_samples, w[1])
        n_independent == NIndependent(n_samples, n_official, w[2])
        drawn == [n_official |-> n_official, n_independent |-> n_independent]
    IN \* np.random.normal refuses a negative size
       IF n_official < 0 \/ n_independent < 0
         THEN {[out |-> Raised("ValueError"), drawn |-> NothingDrawn]}
       \* np.percentile of an empty array
       ELSE IF n_official + n_independent = 0
         THEN {[out |-> Raised("IndexError"), drawn |-> drawn]}
       ELSE
         {[out |-> Returned(Posterior(samples, metric, w)), drawn |-> drawn] :
            samples \in UNION {Shuffles(os \o is) :
               os \in [1..n_official -> NormalDraws(metric.official)],
               is \in [1..n_independent -> NormalDraws(metric.independent)]}}

(* ------------------------------------------------------------------ *)
(* State                                                                *)
(* ------------------------------------------------------------------ *)
VARIABLES
  models,             \* DataImputationEngine.models
  contested_metrics,  \* BayesianTrueRange.contested_metrics
  call,               \* the most recent call: its name and arguments
  ret,                \* what that call produced: a value or an exception
  fitted,             \* the fit_trend calls that call made, with their outcomes
  drawn,              \* the samples that call drew from either distribution
  threads,            \* compute_posterior calls in progress, one per thread
  imputed             \* the engine calls that call made, with their outcomes

vars == <<models, contested_metrics, call, ret, fitted, drawn, threads, imputed>>

NoCall == [op |-> "none"]

\* the threads that call compute_posterior on one shared engine
Threads == {"t1", "t2"}

\* a thread that is not inside compute_posterior, and its local variables
Idle ==
  [pc |-> "idle", metric_name |-> "", n_samples |-> 0, metric |-> None,
   w |-> <<0, 0>>, n_official |-> 0, n_independent |-> 0,
   official_samples |-> <<>>, independent_samples |-> <<>>,
   out |-> Returned(None), overlapped |-> FALSE]

\* DataImputationEngine() and BayesianTrueRange() just constructed
Init ==
  /\ models = <<>>
  /\ contested_metrics = <<>>
  /\ call = NoCall
  /\ ret = Returned(None)
  /\ fitted = <<>>
  /\ drawn = NothingDrawn
  /\ threads = [t \in Threads |-> Idle]
  /\ imputed = <<>>

\* engine.fit_trend(years, values, model_type) on a fresh engine
FitTrend ==
  /\ call = NoCall
  /\ \E ys \in KnownYearSeqs, mt \in ModelTypeChoices \ {"auto"} :
       \E vs \in [1..Len(ys) -> KnownValueChoices] :
         \E o \in fit_trend(ys, vs, mt) :
           /\ call' = [op |-> "fit_trend", years |-> ys, values |-> vs,
                       model_type |-> mt]
           /\ ret' = [exc |-> o.exc, val |-> o.val]
           /\ fitted' = <<[model_type |-> mt, out |-> o]>>
  /\ UNCHANGED <<imputed, models, contested_metrics, drawn, threads>>

\* engine.impute_missing_years(known_years, known_values, missing_years,
\*                             model_type, confidence_level) on a fresh engine
ImputeMissingYears ==
  /\ call = NoCall
  /\ \E ys \in KnownYearSeqs, mt \in ModelTypeChoices,
        ms \in SeqsUpTo(MissingYearChoices, MaxMissing), cl \in ConfidenceChoices :
       \E vs \in [1..Len(ys) -> KnownValueChoices] :
         \E r \in impute_missing_years(ys, vs, ms, mt, cl) :
           /\ call' = [op |-> "impute_missing_years", years |-> ys, values |-> vs,
                       missing_years |-> ms, model_type |-> mt,
                       confidence_level |-> cl]
           /\ ret' = r.out
           /\ fitted' = r.fits
  /\ UNCHANGED <<imputed, models, contested_metrics, drawn, threads>>

ImputeNext == FitTrend \/ ImputeMissingYears

\* the trend imputation engine: one call on a freshly built engine (the
\* engine keeps nothing between calls, so every call starts from this state)
ImputeSpec == Init /\ [][ImputeNext]_vars

(* ------------------------------------------------------------------ *)
(* Imputation asked for years inside the range of the known years       *)
(* ------------------------------------------------------------------ *)
\* engine.impute_missing_years(known_years, known_values, [year]) with the
\* default confidence level, for a year taken from the range the known
\* years span, whether or not the series reports it
ImputeMissingYearsWithin ==
  /\ call = NoCall
  /\ \E ys \in KnownYearSeqs, mt \in {"auto", "linear"},
        y \in KnownYearChoices :
       \E vs \in [1..Len(ys) -> KnownValueChoices] :
         \E r \in impute_missing_years(ys, vs, <<y>>, mt, ConfidenceDefault) :
           /\ call' = [op |-> "impute_missing_years", years |-> ys, values |-> vs,
                       missing_years |-> <<y>>, model_type |-> mt,
                       confidence_level |-> ConfidenceDefault]
           /\ ret' = r.out
           /\ fitted' = r.fits
  /\ UNCHANGED <<imputed, models, contested_metrics, drawn, threads>>

WithinNext == ImputeMissingYearsWithin

WithinSpec == Init /\ [][WithinNext]_vars

(* ------------------------------------------------------------------ *)
(* The same two operations called with years and values of different    *)
(* lengths                                                              *)
(* ------------------------------------------------------------------ *)
\* known_values that do not pair up with the known_years ys
MismatchedValueSeqs(ys) ==
  {vs \in SeqsUpTo({NaN, Fin(3 * Scale)}, NumYears) : Len(vs) # Len(ys)}

\* engine.fit_trend(years, values, model_type), len(years) != len(values)
FitTrendMismatched ==
  /\ call = NoCall
  /\ \E ys \in KnownYearSeqs, mt \in ModelTypeChoices \ {"auto"} :
       \E vs \in MismatchedValueSeqs(ys) :
         \E o \in fit_trend(ys, vs, mt) :
           /\ call' = [op |-> "fit_trend", years |-> ys, values |-> vs,
                       model_type |-> mt]
           /\ ret' = [exc |-> o.exc, val |-> o.val]
           /\ fitted' = <<[model_type |-> mt, out |-> o]>>
  /\ UNCHANGED <<imputed, models, contested_metrics, drawn, threads>>

\* engine.impute_missing_years(...), len(known_years) != len(known_values)
ImputeMissingYearsMismatched ==
  /\ call = NoCall
  /\ \E ys \in KnownYearSeqs, mt \in ModelTypeChoices,
        ms \in SeqsUpTo(MissingYearChoices, 1), cl \in ConfidenceChoices :
       \E vs \in MismatchedValueSeqs(ys) :
         \E r \in impute_missing_years(ys, vs, ms, mt, cl) :
           /\ call' = [op |-> "impute_missing_years", years |-> ys, values |-> vs,
                       missing_years |-> ms, model_type |-> mt,
                       confidence_level |-> cl]
           /\ ret' = r.out
           /\ fitted' = r.fits
  /\ UNCHANGED <<imputed, models, contested_metrics, drawn, threads>>

MismatchedNext == FitTrendMismatched \/ ImputeMissingYearsMismatched

MismatchedSpec == Init /\ [][MismatchedNext]_vars

(* ------------------------------------------------------------------ *)
(* The posterior engine as a state machine                              *)
(* ------------------------------------------------------------------ *)
\* the entry of a name already registered kept as it was
RegistryAfterAddMutant(metrics, name, metric) ==
  [m \in DOMAIN metrics \cup {name} |->
     IF m \in DOMAIN metrics THEN metrics[m] ELSE metric]

\* self.contested_metrics[metric_name] = {...}
RegistryAfterAdd(metrics, name, metric) ==
  [m \in DOMAIN metrics \cup {name} |->
     IF m = name THEN metric ELSE metrics[m]]

\* engine.add_contested_metric(metric_name, official_value, official_std,
\*                             independent_value, independent_std, prior_bias)
add_contested_metric(name, off, ind, bias) ==
  LET metric == [official |-> off, independent |-> ind, prior_bias |-> bias]
  IN /\ contested_metrics' = RegistryAfterAdd(contested_metrics, name, metric)
     /\ call' = [op |-> "add_contested_metric", metric_name |-> name,
                 metric |-> metric,
                 replaced |-> IF name \in DOMAIN contested_metrics
                                THEN contested_metrics[name] ELSE None]
     /\ ret' = Returned(None)
     /\ drawn' = NothingDrawn
     /\ fitted' = <<>>
     /\ UNCHANGED <<imputed, models, threads>>

AddContestedMetric ==
  \E name \in MetricNames, off \in OfficialChoices, ind \in IndependentChoices,
     bias \in BiasChoices :
    add_contested_metric(name, off, ind, bias)

SampleCounts == (-1) .. MaxSamples

\* the metric taken out of the registry once its posterior is computed
RegistryAfterComputeMutant(metrics, metric_name) ==
  [m \in DOMAIN metrics \ {metric_name} |-> metrics[m]]

\* self.contested_metrics after compute_posterior: the method only reads it
RegistryAfterCompute(metrics, metric_name) == metrics

\* engine.compute_posterior(metric_name, n_samples)
ComputePosterior ==
  \E name \in MetricNames \cup {UnknownName}, n \in SampleCounts :
    \E r \in compute_posterior(contested_metrics, name, n) :
      /\ call' = [op |-> "compute_posterior", metric_name |-> name,
                  n_samples |-> n]
      /\ ret' = r.out
      /\ drawn' = r.drawn
      /\ contested_metrics' = RegistryAfterCompute(contested_metrics, name)
      /\ fitted' = <<>>
      /\ UNCHANGED <<imputed, models, threads>>

PosteriorNext == AddContestedMetric \/ ComputePosterior

PosteriorSpec == Init /\ [][PosteriorNext]_vars

(* ------------------------------------------------------------------ *)
(* The posterior engine holding neutral metrics                         *)
(* ------------------------------------------------------------------ *)
\* estimates with and without spread, for the two sources
NeutralOfficialChoices == {[mean |-> 10, std |-> 0], [mean |-> 10, std |-> 1]}
NeutralIndependentChoices ==
  {[mean |-> 12, std |-> 0], [mean |-> 12, std |-> 2], [mean |-> 10, std |-> 0]}

\* engine.add_contested_metric(..., prior_bias='neutral')
AddNeutralMetric ==
  \E name \in MetricNames, off \in NeutralOfficialChoices,
     ind \in NeutralIndependentChoices :
    add_contested_metric(name, off, ind, "neutral")

NeutralNext == AddNeutralMetric \/ ComputePosterior

NeutralSpec == Init /\ [][NeutralNext]_vars

(* ------------------------------------------------------------------ *)
(* Both engines called again and again, in any order                    *)
(* ------------------------------------------------------------------ *)
\* the series the repeated imputation calls are made with
RepeatedYears == <<FirstYear, FirstYear + 1, FirstYear + 2>>
RepeatedValueChoices ==
  {<<Fin(0), Fin(0), Fin(3 * Scale)>>, <<Fin(0), NaN, Fin(3 * Scale)>>}

\* engine.fit_trend(years, values, model_type) on an engine already used
FitTrendRepeated ==
  \E vs \in RepeatedValueChoices, mt \in {"linear", "exponential"} :
    \E o \in fit_trend(RepeatedYears, vs, mt) :
      /\ call' = [op |-> "fit_trend", years |-> RepeatedYears, values |-> vs,
                  model_type |-> mt]
      /\ ret' = [exc |-> o.exc, val |-> o.val]
      /\ fitted' = <<[model_type |-> mt, out |-> o]>>
      /\ drawn' = NothingDrawn
      /\ UNCHANGED <<imputed, models, contested_metrics, threads>>

\* engine.impute_missing_years(...) on an engine already used
ImputeMissingYearsRepeated ==
  \E vs \in RepeatedValueChoices, mt \in {"auto", "linear"} :
    \E r \in impute_missing_years(RepeatedYears, vs,
                                   <<FirstYear + NumYears>>, mt, 95) :
      /\ call' = [op |-> "impute_missing_years", years |-> RepeatedYears,
                  values |-> vs, missing_years |-> <<FirstYear + NumYears>>,
                  model_type |-> mt, confidence_level |-> 95]
      /\ ret' = r.out
      /\ fitted' = r.fits
      /\ drawn' = NothingDrawn
      /\ UNCHANGED <<imputed, models, contested_metrics, threads>>

EnginesNext ==
  \/ AddContestedMetric
  \/ ComputePosterior
  \/ FitTrendRepeated
  \/ ImputeMissingYearsRepeated

EnginesSpec == Init /\ [][EnginesNext]_vars

(* ------------------------------------------------------------------ *)
(* compute_posterior called from several threads on one engine          *)
(*                                                                      *)
(* Each thread runs the method on its own local variables; the steps    *)
(* are cut where the method touches what the threads share: the         *)
(* registry (lines 62 and 65) and numpy's global random generator,      *)
(* which serves one np.random call at a time.                           *)
(* ------------------------------------------------------------------ *)
Running(t) == threads[t].pc \notin {"idle", "done"}

\* the metrics registered for the concurrent calls, and the sample counts
\* the calls ask for
ConcurrentMetricChoices ==
  {[independent |-> [mean |-> 12, std |-> 2], prior_bias |-> "skeptical"],
   [independent |-> [mean |-> 10, std |-> 0], prior_bias |-> "official"]}
ConcurrentSampleCounts == {1, 2}

\* the metrics are registered before the threads start
Register ==
  /\ \A t \in Threads : threads[t].pc = "idle"
  /\ \E name \in MetricNames, off \in OfficialChoices,
        m \in ConcurrentMetricChoices :
       add_contested_metric(name, off, m.independent, m.prior_bias)

\* thread t enters compute_posterior(metric_name, n_samples)
Enter(t) ==
  /\ ~Running(t)
  /\ \E name \in MetricNames, n \in ConcurrentSampleCounts :
       threads' =
         [u \in Threads |->
            IF u = t
              THEN [Idle EXCEPT !.pc = "check", !.metric_name = name,
                                !.n_samples = n,
                                !.overlapped = \E v \in Threads \ {t} : Running(v)]
            ELSE IF Running(u) THEN [threads[u] EXCEPT !.overlapped = TRUE]
            ELSE threads[u]]
  /\ UNCHANGED <<imputed, models, contested_metrics, call, ret, fitted, drawn>>

\* if metric_name not in self.contested_metrics: return None
Check(t) ==
  /\ threads[t].pc = "check"
  /\ threads' =
       [threads EXCEPT ![t] =
          IF threads[t].metric_name \in DOMAIN contested_metrics
            THEN [@ EXCEPT !.pc = "read"]
          ELSE [@ EXCEPT !.pc = "done", !.out = Returned(None)]]
  /\ UNCHANGED <<imputed, models, contested_metrics, call, ret, fitted, drawn>>

\* a metric name kept where every thread writes it: the latest caller's
\* name is the one looked up
ReadMetricMutant(t) ==
  LET others == {u \in Threads \ {t} :
                   threads[u].metric_name \in DOMAIN contested_metrics}
  IN IF others = {} THEN contested_metrics[threads[t].metric_name]
     ELSE contested_metrics[threads[CHOOSE u \in others : TRUE].metric_name]

\* metric = self.contested_metrics[metric_name]
ReadMetric(t) == contested_metrics[threads[t].metric_name]

\* lines 65 to 80: the metric is read and the weights and the partition
\* are computed from it
Read(t) ==
  /\ threads[t].pc = "read"
  /\ LET metric == ReadMetric(t)
         w == Weights(metric.prior_bias)
         n_official == NOfficial(threads[t].n_samples, w[1])
     IN threads' =
          [threads EXCEPT ![t] =
             [@ EXCEPT !.pc = "draw_official", !.metric = metric, !.w = w,
                       !.n_official = n_official,
                       !.n_independent =
                          NIndependent(threads[t].n_samples, n_official, w[2])]]
  /\ UNCHANGED <<imputed, models, contested_metrics, call, ret, fitted, drawn>>

\* official_samples = np.random.normal(mean, std, n_official)
DrawOfficial(t) ==
  /\ threads[t].pc = "draw_official"
  /\ IF threads[t].n_official < 0
       THEN threads' = [threads EXCEPT ![t] =
                          [@ EXCEPT !.pc = "done", !.out = Raised("ValueError")]]
     ELSE \E os \in [1..threads[t].n_official ->
                        NormalDraws(threads[t].metric.official)] :
            threads' = [threads EXCEPT ![t] =
                          [@ EXCEPT !.pc = "draw_independent",
                                    !.official_samples = os]]
  /\ UNCHANGED <<imputed, models, contested_metrics, call, ret, fitted, drawn>>

\* independent_samples = np.random.normal(mean, std, n_independent)
DrawIndependent(t) ==
  /\ threads[t].pc = "draw_independent"
  /\ IF threads[t].n_independent < 0
       THEN threads' = [threads EXCEPT ![t] =
                          [@ EXCEPT !.pc = "done", !.out = Raised("ValueError")]]
     ELSE \E is \in [1..threads[t].n_independent ->
                        NormalDraws(threads[t].metric.independent)] :
            threads' = [threads EXCEPT ![t] =
                          [@ EXCEPT !.pc = "shuffle",
                                    !.independent_samples = is]]
  /\ UNCHANGED <<imputed, models, contested_metrics, call, ret, fitted, drawn>>

\* lines 90 to 106: concatenate, shuffle, percentiles, the result
Return(t) ==
  /\ threads[t].pc = "shuffle"
  /\ LET joined == threads[t].official_samples \o threads[t].independent_samples
     IN IF joined = <<>>
          THEN threads' = [threads EXCEPT ![t] =
                             [@ EXCEPT !.pc = "done", !.out = Raised("IndexError")]]
        ELSE \E samples \in Shuffles(joined) :
               threads' =
                 [threads EXCEPT ![t] =
                    [@ EXCEPT !.pc = "done",
                              !.out = Returned(Posterior(samples,
                                                         threads[t].metric,
                                                         threads[t].w))]]
  /\ UNCHANGED <<imputed, models, contested_metrics, call, ret, fitted, drawn>>

ConcurrentNext ==
  \/ Register
  \/ \E t \in Threads :
       \/ Enter(t)
       \/ Check(t)
       \/ Read(t)
       \/ DrawOfficial(t)
       \/ DrawIndependent(t)
       \/ Return(t)

ConcurrentSpec == Init /\ [][ConcurrentNext]_vars

(* ------------------------------------------------------------------ *)
(* get_obfuscated_metrics                                               *)
(* ------------------------------------------------------------------ *)
RECURSIVE MinSeq(_)
MinSeq(s) == IF Len(s) = 1 THEN s[1]
             ELSE LET m == MinSeq(Tail(s)) IN IF s[1] <= m THEN s[1] ELSE m

\* list(range(lo, hi))
Range(lo, hi) == [i \in 1..(hi - lo) |-> lo + i - 1]

\* y in years
InList(y, years) == \E i \in 1..Len(years) : years[i] = y

\* the years without a row up to the last reported year, and no further
MissingYearsMutant(years) ==
  LET all_years == Range(MinSeq(years), MaxSeq(years) + 1)
      NoRow(y) == ~InList(y, years)
  IN SelectSeq(all_years, NoRow)

\* all_years = list(range(min(years), max(years) + 2))
\* missing = [y for y in all_years if y not in years]
MissingYears(years) ==
  LET all_years == Range(MinSeq(years), MaxSeq(years) + 2)
      NoRow(y) == ~InList(y, years)
  IN SelectSeq(all_years, NoRow)

\* the test left out: whatever the engine returned is appended
TruthyMutant(result) == TRUE

\* if result: / if posterior: None is false, a dict with keys is true
Truthy(result) == result # None

\* the rows a query returns, as the list of years and the list of values;
\* a value of NULL is NaN once fit_trend has made the values floats
NoRows == [years |-> <<>>, values |-> <<>>]
RowChoices ==
  {[years |-> ys, values |-> vs] :
     <<ys, vs>> \in UNION {{ys} \X [1..Len(ys) -> KnownValueChoices]
                            : ys \in KnownYearSeqs}}

\* the rows of agency_budgets: none, three years without a gap, and two
\* years either side of a gap
BudgetRowChoices ==
  {NoRows,
   [years |-> <<FirstYear, FirstYear + 1, FirstYear + 2>>,
    values |-> <<Fin(0), Fin(3 * Scale), Fin(3 * Scale)>>],
   [years |-> <<FirstYear, FirstYear + 2>>,
    values |-> <<Fin(3 * Scale), Fin(3 * Scale)>>]}

\* the years of the rows that hold a value, when there is such a row
YearsWithRowMutant(data) ==
  IF \A i \in 1..Len(data.values) : IsNaN(data.values[i]) THEN data.years
  ELSE Keep(data.years, NotNaNMask(data.values))

\* years = [d['year'] for d in data]: the year of every row, whatever the
\* value the row holds
YearsWithRow(data) == data.years

\* one of the two blocks of get_obfuscated_metrics on the rows data: the set
\* of [exc, entries, calls], entries being what the block appends to
\* imputed_metrics and calls the impute_missing_years calls it makes
ImputeSeries(metric, unit, data) ==
  IF data.years = <<>>
    THEN {[exc |-> "none", entries |-> <<>>, calls |-> <<>>]}
  ELSE
    LET missing == MissingYears(YearsWithRow(data))
    IN IF missing = <<>>
         THEN {[exc |-> "none", entries |-> <<>>, calls |-> <<>>]}
       ELSE
         {LET made == <<[metric |-> metric, known_years |-> data.years,
                         known_values |-> data.values,
                         missing_years |-> missing, out |-> r.out]>>
          IN IF r.out.exc # "none"
               THEN [exc |-> r.out.exc, entries |-> <<>>, calls |-> made]
             ELSE IF Truthy(r.out.val)
               THEN [exc |-> "none",
                     entries |-> <<[metric |-> metric,
                                    known_years |-> data.years,
                                    known_values |-> data.values,
                                    result |-> r.out.val,
                                    unit |-> unit]>>,
                     calls |-> made]
             ELSE [exc |-> "none", entries |-> <<>>, calls |-> made]
          : r \in impute_missing_years(data.years, data.values, missing,
                                        "auto", ConfidenceDefault)}

\* the outcomes of get_obfuscated_metrics() for the rows the two queries
\* return: the deaths block, then the budget block
get_obfuscated_metrics(deaths_data, budget_data) ==
  UNION {
    IF d.exc # "none"
      THEN {[out |-> Raised(d.exc), calls |-> d.calls]}
    ELSE
      {IF b.exc # "none"
         THEN [out |-> Raised(b.exc), calls |-> d.calls \o b.calls]
       ELSE [out |-> Returned([type |-> "imputed_metrics",
                               entries |-> d.entries \o b.entries]),
             calls |-> d.calls \o b.calls]
       : b \in ImputeSeries("ICE Budget", "$M", budget_data)}
    : d \in ImputeSeries("Deaths in Custody", "deaths", deaths_data)}

\* get_obfuscated_metrics() against a database holding these rows
GetObfuscatedMetrics ==
  /\ call = NoCall
  /\ \E deaths_data \in RowChoices, budget_data \in BudgetRowChoices :
       \E r \in get_obfuscated_metrics(deaths_data, budget_data) :
         /\ call' = [op |-> "get_obfuscated_metrics",
                     deaths_data |-> deaths_data, budget_data |-> budget_data]
         /\ ret' = r.out
         /\ imputed' = r.calls
  /\ UNCHANGED <<models, contested_metrics, fitted, drawn, threads>>

(* ------------------------------------------------------------------ *)
(* get_contested_metrics_analysis                                       *)
(* ------------------------------------------------------------------ *)
\* the six add_contested_metric calls, in the order they are made
Catalog ==
  <<[name |-> "Daily Detention Population",
     official |-> [mean |-> 35000, std |-> 2000],
     independent |-> [mean |-> 52000, std |-> 5000],
     prior_bias |-> "skeptical"],
    [name |-> "Annual Removals",
     official |-> [mean |-> 185000, std |-> 10000],
     independent |-> [mean |-> 265000, std |-> 25000],
     prior_bias |-> "skeptical"],
    [name |-> "Deaths in/after Custody (Annual)",
     official |-> [mean |-> 22, std |-> 3],
     independent |-> [mean |-> 45, std |-> 12],
     prior_bias |-> "skeptical"],
    [name |-> "Sexual Assault Incidents (Annual)",
     official |-> [mean |-> 120, std |-> 20],
     independent |-> [mean |-> 850, std |-> 150],
     prior_bias |-> "skeptical"],
    [name |-> "Individuals in Solitary Confinement",
     official |-> [mean |-> 2500, std |-> 300],
     independent |-> [mean |-> 8000, std |-> 1500],
     prior_bias |-> "skeptical"],
    [name |-> "Family Separations (2017-2021)",
     official |-> [mean |-> 3900, std |-> 200],
     independent |-> [mean |-> 5500, std |-> 400],
     prior_bias |-> "skeptical"]>>

\* compute_posterior(self, metric_name, n_samples=10000)
DefaultSamples == 10000

\* a dict as its keys in insertion order and the value at each key
EmptyDict == [keys |-> <<>>, at |-> <<>>]

\* a new key put in front of the others
DictSetMutant(d, k, v) ==
  [keys |-> IF InList(k, d.keys) THEN d.keys ELSE <<k>> \o d.keys,
   at |-> [x \in DOMAIN d.at \cup {k} |-> IF x = k THEN v ELSE d.at[x]]]

\* d[k] = v: a new key goes last, a key already there keeps its place
DictSet(d, k, v) ==
  [keys |-> IF InList(k, d.keys) THEN d.keys ELSE Append(d.keys, k),
   at |-> [x \in DOMAIN d.at \cup {k} |-> IF x = k THEN v ELSE d.at[x]]]

RECURSIVE Registered(_, _)
\* engine.contested_metrics after the first n calls of the catalog
Registered(catalog, n) ==
  IF n = 0 THEN EmptyDict
  ELSE DictSet(Registered(catalog, n - 1), catalog[n].name,
               [official |-> catalog[n].official,
                independent |-> catalog[n].independent,
                prior_bias |-> catalog[n].prior_bias])

\* compute_posterior for a sample count too large for the samples to be
\* listed: its outcome without the samples and the statistics taken from
\* them, with the number of samples in their place
PosteriorOutline(metrics, metric_name, n_samples) ==
  IF metric_name \notin DOMAIN metrics THEN NotFound
  ELSE
    LET metric == metrics[metric_name]
        w == Weights(metric.prior_bias)
        n_official == NOfficial(n_samples, w[1])
        n_independent == NIndependent(n_samples, n_official, w[2])
        drawn_ == [n_official |-> n_official, n_independent |-> n_independent]
    IN IF n_official < 0 \/ n_independent < 0
         THEN {[out |-> Raised("ValueError"), drawn |-> NothingDrawn]}
       ELSE IF n_official + n_independent = 0
         THEN {[out |-> Raised("IndexError"), drawn |-> drawn_]}
       ELSE {[out |-> Returned([type |-> "posterior",
                                n_samples |-> n_official + n_independent,
                                official |-> metric.official,
                                independent |-> metric.independent,
                                weights |-> <<Fin(w[1]), Fin(w[2])>>]),
              drawn |-> drawn_]}

RECURSIVE AnalyseFrom(_, _, _)
\* for metric_name in engine.contested_metrics, from the i-th key on: the
\* set of [exc, entries, calls], calls being the compute_posterior calls
\* made with their outcomes
AnalyseFrom(registry, i, n_samples) ==
  IF i > Len(registry.keys)
    THEN {[exc |-> "none", entries |-> <<>>, calls |-> <<>>]}
  ELSE
    UNION {
      LET made == <<[metric_name |-> registry.keys[i], out |-> r.out,
                     drawn |-> r.drawn]>>
      IN IF r.out.exc # "none"
           THEN {[exc |-> r.out.exc, entries |-> <<>>, calls |-> made]}
         ELSE
           {[exc |-> rest.exc,
             entries |-> (IF Truthy(r.out.val)
                            THEN <<[name |-> registry.keys[i],
                                    posterior |-> r.out.val]>>
                          ELSE <<>>) \o rest.entries,
             calls |-> made \o rest.calls]
            : rest \in AnalyseFrom(registry, i + 1, n_samples)}
      : r \in PosteriorOutline(registry.at, registry.keys[i], n_samples)}

\* the outcomes of get_contested_metrics_analysis()
get_contested_metrics_analysis ==
  {IF a.exc # "none" THEN [out |-> Raised(a.exc), calls |-> a.calls]
   ELSE [out |-> Returned([type |-> "results", entries |-> a.entries]),
         calls |-> a.calls]
   : a \in AnalyseFrom(Registered(Catalog, Len(Catalog)), 1, DefaultSamples)}

\* get_contested_metrics_analysis(), which builds an engine of its own
GetContestedMetricsAnalysis ==
  /\ call = NoCall
  /\ \E r \in get_contested_metrics_analysis :
       /\ call' = [op |-> "get_contested_metrics_analysis"]
       /\ ret' = r.out
       /\ imputed' = r.calls
  /\ UNCHANGED <<models, contested_metrics, fitted, drawn, threads>>

ReportsNext == GetObfuscatedMetrics \/ GetContestedMetricsAnalysis

\* the two functions that prepare what the pages display
ReportsSpec == Init /\ [][ReportsNext]_vars

(* ------------------------------------------------------------------ *)
(* Vocabulary of the properties                                         *)
(* ------------------------------------------------------------------ *)
DocumentedKinds == {"linear", "exponential", "logistic"}

\* number of (year, value) pairs whose value is not NaN
ValidCount(values) == Cardinality({i \in 1..Len(values) : ~IsNaN(values[i])})

ImputeCalled == call.op = "impute_missing_years"
FitCalled == call.op = "fit_trend"
PosteriorCalled == call.op = "compute_posterior"

\* the call returned something other than null
ReturnedValue == ret.exc = "none" /\ ret.val # None
ReturnedNull == ret.exc = "none" /\ ret.val = None

ImputationReturned == ImputeCalled /\ ReturnedValue
PosteriorReturned == PosteriorCalled /\ ReturnedValue

Entries == ret.val.predictions

\* the latest year among the known_years passed
LatestKnown == CHOOSE y \in {call.years[i] : i \in 1..Len(call.years)} :
                 \A i \in 1..Len(call.years) : call.years[i] <= y

(* ------------------------------------------------------------------ *)
(* C1                                                                   *)
(* ------------------------------------------------------------------ *)
\* C1: in every non-null result of impute_missing_years, for any known
\* points, model kind and confidence_level, every entry of predictions has
\* lower <= predicted <= upper.
C1_BoundsOrdered ==
  ImputationReturned =>
    \A i \in 1..Len(Entries) :
      /\ FLe(Entries[i].lower, Entries[i].predicted)
      /\ FLe(Entries[i].predicted, Entries[i].upper)

(* ------------------------------------------------------------------ *)
(* C2                                                                   *)
(* ------------------------------------------------------------------ *)
\* C2: each entry's uncertainty_factor is 1 + 0.15 * max(0, year - latest
\* known year): exactly 1 at or before the latest known year, at least 1
\* everywhere, and non-decreasing in the year.
C2_UncertaintyFactor ==
  ImputationReturned =>
    /\ \A i \in 1..Len(Entries) :
         LET e == Entries[i]
             out == e.year - LatestKnown
         IN /\ IsFin(e.uncertainty_factor)
            /\ e.uncertainty_factor.v * 100 =
                 100 * Scale + 15 * Scale * (IF out > 0 THEN out ELSE 0)
            /\ (e.year <= LatestKnown => e.uncertainty_factor.v = Scale)
            /\ e.uncertainty_factor.v >= Scale
    /\ \A i, j \in 1..Len(Entries) :
         Entries[i].year <= Entries[j].year =>
           Entries[i].uncertainty_factor.v <= Entries[j].uncertainty_factor.v

\* a result with one entry inside the known range and a later one beyond it
C2_Witness ==
  /\ ImputationReturned
  /\ \E i, j \in 1..Len(Entries) :
       /\ Entries[i].year < LatestKnown
       /\ Entries[j].year > LatestKnown + 1
       /\ Entries[i].uncertainty_factor.v < Entries[j].uncertainty_factor.v

(* ------------------------------------------------------------------ *)
(* C3                                                                   *)
(* ------------------------------------------------------------------ *)
\* C3: impute_missing_years returns null, and raises nothing, whenever fewer
\* than 3 known pairs have a non-NaN value, for every model kind and every
\* list of missing years.
C3_TooFewPointsGiveNull ==
  (ImputeCalled /\ ValidCount(call.values) < 3) => ReturnedNull

\* three pairs were passed, one of them NaN, and the result was null
C3_Witness ==
  /\ ImputeCalled
  /\ Len(call.values) = 3
  /\ ValidCount(call.values) = 2
  /\ call.model_type = "auto"
  /\ Len(call.missing_years) > 0
  /\ ReturnedNull

(* ------------------------------------------------------------------ *)
(* C4                                                                   *)
(* ------------------------------------------------------------------ *)
\* C4: fit_trend drops every NaN value together with its year and decides on
\* the pairs that remain: null when fewer than 3 remain, a model when
\* exactly 3 remain.
C4_ThresholdOnValidPairs ==
  (FitCalled /\ call.model_type \in DocumentedKinds) =>
    /\ (ValidCount(call.values) < 3 => ReturnedNull)
    /\ (ValidCount(call.values) = 3 => ReturnedValue)

(* ------------------------------------------------------------------ *)
(* C5                                                                   *)
(* ------------------------------------------------------------------ *)
\* C5: with at least 3 valid pairs fit_trend('linear' | 'exponential' |
\* 'logistic') returns a model, never null, whether or not the optimizer
\* converges; impute_missing_years returns null only with fewer than 3
\* valid pairs.
C5_ModelGivenThreePoints ==
  /\ (FitCalled /\ call.model_type \in DocumentedKinds
        /\ ValidCount(call.values) >= 3) => ReturnedValue
  /\ (ImputeCalled /\ call.model_type \in DocumentedKinds \cup {"auto"}
        /\ ReturnedNull) => ValidCount(call.values) < 3

(* ------------------------------------------------------------------ *)
(* C6                                                                   *)
(* ------------------------------------------------------------------ *)
\* the years and values fit_trend is left with after dropping the NaN pairs
ValidYears == Keep(call.years, [i \in 1..Len(call.values) |-> ~IsNaN(call.values[i])])
ValidValues == Keep(call.values, [i \in 1..Len(call.values) |-> ~IsNaN(call.values[i])])

\* C6: whenever the exponential or logistic optimizer fails, fit_trend
\* returns exactly the linear model of the same data, and neither fit_trend
\* nor impute_missing_years raises.
C6_FailureAbsorbedByLinear ==
  (FitCalled \/ ImputeCalled) =>
    \A i \in 1..Len(fitted) :
      fitted[i].out.curve_fit \notin {"not called", "converged"} =>
        /\ fitted[i].out.exc = "none"
        /\ fitted[i].out.val.type = "linear"
        /\ fitted[i].out.val = LinearModel(ValidYears, ValidValues)
        /\ ret.exc = "none"

(* ------------------------------------------------------------------ *)
(* C7                                                                   *)
(* ------------------------------------------------------------------ *)
\* C7: under 'auto', impute_missing_years fits the linear and the
\* exponential model and uses whichever has the higher r_squared; a
\* logistic model is never selected.
C7_AutoPicksHigherRSquared ==
  (ImputationReturned /\ call.model_type = "auto") =>
    /\ Len(fitted) = 2
    /\ fitted[1].model_type = "linear"
    /\ fitted[2].model_type = "exponential"
    /\ \E i \in 1..2 : ret.val.model = fitted[i].out.val
    /\ \A i \in 1..2 :
         ~FGt(fitted[i].out.val.r_squared, ret.val.model.r_squared)
    /\ ret.val.model_type # "logistic"
    /\ ret.val.model.type # "logistic"

\* 'auto' selected the exponential model because its r_squared is higher
C7_Witness ==
  /\ ImputationReturned
  /\ call.model_type = "auto"
  /\ ret.val.model_type = "exponential"
  /\ fitted[1].out.val.type = "linear"
  /\ FGt(ret.val.r_squared, fitted[1].out.val.r_squared)

(* ------------------------------------------------------------------ *)
(* C8                                                                   *)
(* ------------------------------------------------------------------ *)
\* C8: for a registered metric and a sample count >= 2, compute_posterior
\* returns exactly that many samples; the two partition sizes are
\* non-negative and sum to the sample count.
C8_SampleCount ==
  (PosteriorCalled /\ call.metric_name \in DOMAIN contested_metrics
     /\ call.n_samples >= 2) =>
    /\ ReturnedValue
    /\ Len(ret.val.samples) = call.n_samples
    /\ drawn.n_official >= 0
    /\ drawn.n_independent >= 0
    /\ drawn.n_official + drawn.n_independent = call.n_samples

\* three samples asked for under the skeptical weights: none official
C8_Witness ==
  /\ PosteriorReturned
  /\ call.n_samples = 3
  /\ contested_metrics[call.metric_name].prior_bias = "skeptical"
  /\ drawn = [n_official |-> 0, n_independent |-> 3]
  /\ Len(ret.val.samples) = 3

(* ------------------------------------------------------------------ *)
(* C9                                                                   *)
(* ------------------------------------------------------------------ *)
\* C9: the echoed weights follow from the bias mode alone: skeptical
\* (0.3, 0.7), official (0.7, 0.3), neutral (0.5, 0.5); they sum to 1.
C9_WeightsFromBias ==
  PosteriorReturned =>
    LET bias == contested_metrics[call.metric_name].prior_bias
        w == ret.val.weights
        tenths(a, b) == <<Fin((a * Scale) \div 10), Fin((b * Scale) \div 10)>>
    IN /\ (bias = "skeptical" => w = tenths(3, 7))
       /\ (bias = "official" => w = tenths(7, 3))
       /\ (bias = "neutral" => w = tenths(5, 5))
       /\ FAdd(w[1], w[2]) = Fin(Scale)

\* a skeptical posterior for a metric whose two estimates coincide
C9_Witness ==
  /\ PosteriorReturned
  /\ contested_metrics[call.metric_name].prior_bias = "skeptical"
  /\ ret.val.independent.mean = ret.val.official.mean
  /\ ret.val.weights[2].v > ret.val.weights[1].v

(* ------------------------------------------------------------------ *)
(* C10                                                                  *)
(* ------------------------------------------------------------------ *)
\* C10: in every returned posterior
\* ci_90.low <= ci_50.low <= median <= ci_50.high <= ci_90.high.
C10_IntervalsNested ==
  PosteriorReturned =>
    /\ FLe(ret.val.ci_90[1], ret.val.ci_50[1])
    /\ FLe(ret.val.ci_50[1], ret.val.median)
    /\ FLe(ret.val.median, ret.val.ci_50[2])
    /\ FLe(ret.val.ci_50[2], ret.val.ci_90[2])

\* a posterior whose five percentiles are all different
C10_Witness ==
  /\ PosteriorReturned
  /\ FLt(ret.val.ci_90[1], ret.val.ci_50[1])
  /\ FLt(ret.val.ci_50[1], ret.val.median)
  /\ FLt(ret.val.median, ret.val.ci_50[2])
  /\ FLt(ret.val.ci_50[2], ret.val.ci_90[2])

(* ------------------------------------------------------------------ *)
(* C11                                                                  *)
(* ------------------------------------------------------------------ *)
\* C11: a compute_posterior call naming a metric that was never added
\* returns null: it raises nothing, draws no samples and leaves the registry
\* as it was, whatever add_contested_metric and compute_posterior calls came
\* before it.
C11_UnknownMetricGivesNull ==
  [][(call'.op = "compute_posterior"
        /\ call'.metric_name \notin DOMAIN contested_metrics)
       => /\ ret' = Returned(None)
          /\ drawn' = NothingDrawn
          /\ contested_metrics' = contested_metrics]_vars

\* with a metric registered, a name that was never added is asked for and
\* the answer is null
C11_Witness ==
  /\ PosteriorCalled
  /\ call.metric_name \notin DOMAIN contested_metrics
  /\ contested_metrics # <<>>
  /\ call.n_samples >= 2
  /\ ReturnedNull
  /\ drawn = NothingDrawn

(* ------------------------------------------------------------------ *)
(* C12                                                                  *)
(* ------------------------------------------------------------------ *)
\* C12: compute_posterior never returns a posterior built from fewer than 2
\* samples: a sample count below 2 is refused, or raised to at least 2
\* before the samples are drawn.
C12_AtLeastTwoSamples ==
  PosteriorReturned =>
    /\ Len(ret.val.samples) >= 2
    /\ drawn.n_official + drawn.n_independent >= 2

(* ------------------------------------------------------------------ *)
(* C13                                                                  *)
(* ------------------------------------------------------------------ *)
\* C13: the number of samples drawn from the official distribution is
\* n_samples * w_official rounded to a nearest whole number (whichever way a
\* tie is broken), and the number drawn from the independent distribution is
\* n_samples minus that, for every sample count and bias mode.
C13_PartitionRounded ==
  PosteriorReturned =>
    LET exact == call.n_samples * ret.val.weights[1].v
        off == drawn.n_official * Scale - exact
    IN /\ 2 * off <= Scale
       /\ 2 * off >= -Scale
       /\ drawn.n_independent = call.n_samples - drawn.n_official

(* ------------------------------------------------------------------ *)
(* C14                                                                  *)
(* ------------------------------------------------------------------ *)
\* x == y on floats: false whenever either side is NaN
FEq(x, y) == ~IsNaN(x) /\ ~IsNaN(y) /\ x = y

\* C14: every entry has predicted = model.predict(year), and lower and upper
\* lie symmetrically around it at distance margin = z_score * residual_std *
\* uncertainty_factor: upper - predicted == predicted - lower == margin.
C14_SymmetricMargin ==
  ImputationReturned =>
    \A i \in 1..Len(Entries) :
      LET e == Entries[i]
          margin == FMul(FMul(ZScore(call.confidence_level),
                              ret.val.model.residual_std),
                         e.uncertainty_factor)
      IN /\ e.predicted = ret.val.model.predict[e.year]
         /\ FEq(FSub(e.upper, e.predicted), margin)
         /\ FEq(FSub(e.predicted, e.lower), margin)

(* ------------------------------------------------------------------ *)
(* C15                                                                  *)
(* ------------------------------------------------------------------ *)
\* C15: a non-null result of impute_missing_years has exactly one entry per
\* element of missing_years, in the order given (repeated and unsorted years
\* kept as they are), each with that element's year and is_imputed true; an
\* empty missing_years gives an empty list of predictions.
C15_OneEntryPerMissingYear ==
  ImputationReturned =>
    /\ Len(Entries) = Len(call.missing_years)
    /\ \A i \in 1..Len(Entries) :
         /\ Entries[i].year = call.missing_years[i]
         /\ Entries[i].is_imputed = TRUE
    /\ (call.missing_years = <<>> => Entries = <<>>)

\* two missing years given latest first, answered in that order
C15_Witness ==
  /\ ImputationReturned
  /\ Len(call.missing_years) = 2
  /\ call.missing_years[1] > call.missing_years[2]
  /\ Entries[1].year > Entries[2].year

(* ------------------------------------------------------------------ *)
(* C16                                                                  *)
(* ------------------------------------------------------------------ *)
\* the predictions returned are those of the fitted model m
PredictedBy(m) ==
  \A i \in 1..Len(Entries) : Entries[i].predicted = m.predict[Entries[i].year]

\* C16: the model_type and r_squared impute_missing_years returns are those
\* of the model the predictions were computed with: under 'auto' the kind of
\* the selected model, and after a nonlinear fit fell back, 'linear' with the
\* r_squared of the linear fit, not the kind that was asked for.
C16_ReportsModelUsed ==
  ImputationReturned =>
    /\ \E j \in 1..Len(fitted) :
         /\ fitted[j].out.val # None
         /\ PredictedBy(fitted[j].out.val)
         /\ ret.val.model_type = fitted[j].out.val.type
         /\ ret.val.r_squared = fitted[j].out.val.r_squared
    /\ ret.val.model_type = ret.val.model.type
    /\ ret.val.r_squared = ret.val.model.r_squared
    /\ (call.model_type = "auto" =>
          ret.val.model_type \in {"linear", "exponential"})
    /\ (/\ call.model_type \in {"exponential", "logistic"}
        /\ fitted[1].out.curve_fit \in CaughtByFallback
        => /\ ret.val.model_type = "linear"
           /\ ret.val.r_squared = LinearModel(ValidYears, ValidValues).r_squared)

\* an exponential fit was asked for, the optimizer gave up, and the result
\* reports the linear model that was used
C16_Witness ==
  /\ ImputationReturned
  /\ call.model_type = "exponential"
  /\ fitted[1].out.curve_fit = "RuntimeError"
  /\ ret.val.model_type = "linear"
  /\ Len(Entries) > 0
  /\ FGt(ret.val.r_squared, Fin(0))

(* ------------------------------------------------------------------ *)
(* C17                                                                  *)
(* ------------------------------------------------------------------ *)
\* C17: every numeric field of every non-null output is finite: predicted,
\* lower, upper, uncertainty_factor and r_squared of an imputation, and
\* mean, median, std, ci_50 and ci_90 of a posterior, whatever the
\* confidence_level, the known values and the sample count.
C17_OutputsFinite ==
  /\ ImputationReturned =>
       /\ IsFin(ret.val.r_squared)
       /\ \A i \in 1..Len(Entries) :
            /\ IsFin(Entries[i].predicted)
            /\ IsFin(Entries[i].lower)
            /\ IsFin(Entries[i].upper)
            /\ IsFin(Entries[i].uncertainty_factor)
  /\ PosteriorReturned =>
       /\ IsFin(ret.val.mean)
       /\ IsFin(ret.val.median)
       /\ IsFin(ret.val.std)
       /\ \A i \in 1..2 : IsFin(ret.val.ci_50[i]) /\ IsFin(ret.val.ci_90[i])

C19_NoStateAcrossCalls ==
  [][/\ models = <<>>
     /\ models' = <<>>
     /\ call'.op \in {"fit_trend", "impute_missing_years"} =>
          contested_metrics' = contested_metrics
     /\ call'.op = "compute_posterior" =>
          /\ contested_metrics' = contested_metrics
          /\ (ret'.exc = "none" /\ ret'.val # None) =>
               LET metric == contested_metrics[call'.metric_name]
                   w == Weights(metric.prior_bias)
                   n == call'.n_samples
               IN /\ ret'.val.weights = <<Fin(w[1]), Fin(w[2])>>
                  /\ ret'.val.official = metric.official
                  /\ ret'.val.independent = metric.independent
                  /\ drawn'.n_official = IntTrunc(n * w[1], Scale)
                  /\ drawn'.n_independent = n - drawn'.n_official]_vars

\* a posterior of three samples, two of them official, computed on a
\* registry of two metrics
C19_Witness ==
  /\ PosteriorReturned
  /\ models = <<>>
  /\ Cardinality(DOMAIN contested_metrics) = 2
  /\ call.n_samples = 3
  /\ ret.val.official = contested_metrics[call.metric_name].official
  /\ drawn.n_official = 2

(* ------------------------------------------------------------------ *)
(* C20                                                                  *)
(* ------------------------------------------------------------------ *)
\* thread t has come back from compute_posterior with a posterior
PosteriorOf(t) ==
  threads[t].pc = "done" /\ threads[t].out.exc = "none"
    /\ threads[t].out.val # None

\* C20: however compute_posterior calls of several threads on one engine
\* interleave, each call comes back with what it could have returned
\* running alone: a posterior has the number of samples its caller asked
\* for and the weights and echoed estimates of the metric its caller named.
C20_ConcurrentCallsIndependent ==
  \A t \in Threads :
    threads[t].pc = "done" =>
      /\ threads[t].out \in
           {r.out : r \in compute_posterior(contested_metrics,
                                            threads[t].metric_name,
                                            threads[t].n_samples)}
      /\ PosteriorOf(t) =>
           LET metric == contested_metrics[threads[t].metric_name]
               w == Weights(metric.prior_bias)
               val == threads[t].out.val
           IN /\ Len(val.samples) = threads[t].n_samples
              /\ val.weights = <<Fin(w[1]), Fin(w[2])>>
              /\ val.official = metric.official
              /\ val.independent = metric.independent

\* two calls that ran at the same time, for different metrics with
\* different weights and sample counts, have both returned a posterior
C20_Witness ==
  /\ \A t \in Threads : PosteriorOf(t) /\ threads[t].overlapped
  /\ threads["t1"].metric_name # threads["t2"].metric_name
  /\ threads["t1"].n_samples # threads["t2"].n_samples
  /\ threads["t1"].out.val.weights # threads["t2"].out.val.weights
  /\ threads["t1"].out.val.independent # threads["t2"].out.val.independent

(* ------------------------------------------------------------------ *)
(* C21                                                                  *)
(* ------------------------------------------------------------------ *)
ObfuscatedReturned == call.op = "get_obfuscated_metrics" /\ ret.exc = "none"
AnalysisReturned ==
  call.op = "get_contested_metrics_analysis" /\ ret.exc = "none"

\* the engine call c came back with something other than null
GaveResult(c) == c.out.exc = "none" /\ c.out.val # None

\* C21: a metric whose computation ends in null is left out of what is
\* displayed: get_obfuscated_metrics has one entry per impute_missing_years
\* call that returned a result, get_contested_metrics_analysis one entry per
\* compute_posterior call that returned a posterior, each entry carrying
\* that result; there is no entry for a call that returned null.
C21_FailedMetricsOmitted ==
  /\ ObfuscatedReturned =>
       LET shown == SelectSeq(imputed, GaveResult)
       IN /\ Len(ret.val.entries) = Len(shown)
          /\ \A i \in 1..Len(shown) :
               /\ ret.val.entries[i].metric = shown[i].metric
               /\ ret.val.entries[i].result = shown[i].out.val
               /\ ret.val.entries[i].result.type = "imputation"
  /\ AnalysisReturned =>
       LET shown == SelectSeq(imputed, GaveResult)
       IN /\ Len(ret.val.entries) = Len(shown)
          /\ \A i \in 1..Len(shown) :
               /\ ret.val.entries[i].name = shown[i].metric_name
               /\ ret.val.entries[i].posterior = shown[i].out.val
               /\ ret.val.entries[i].posterior.type = "posterior"

\* the deaths series has too few valid values and is left out, the budget
\* series is shown
C21_Witness ==
  /\ ObfuscatedReturned
  /\ Len(imputed) = 2
  /\ imputed[1].out.val = None
  /\ Len(ret.val.entries) = 1
  /\ ret.val.entries[1].metric = "ICE Budget"

(* ------------------------------------------------------------------ *)
(* C22                                                                  *)
(* ------------------------------------------------------------------ *)
\* a posterior of a neutral metric, computed from at least 2 samples
NeutralPosterior ==
  /\ PosteriorReturned
  /\ contested_metrics[call.metric_name].prior_bias = "neutral"
  /\ call.n_samples >= 2

\* x lies between the official and the independent mean, inclusive
BetweenMeans(x) ==
  LET a == ret.val.official.mean * Scale
      b == ret.val.independent.mean * Scale
  IN IsFin(x) /\ ((a <= x.v /\ x.v <= b) \/ (b <= x.v /\ x.v <= a))

\* C22 as stated: the mean of the posterior of a neutral metric lies
\* between official.mean and independent.mean, for every sample count >= 2
\* and every draw of the samples.
C22_NeutralMeanBetween == NeutralPosterior => BetweenMeans(ret.val.mean)

\* C22 amended: the mean of the posterior of a neutral metric lies between
\* official.mean and independent.mean whenever every sample drawn lies
\* between them, as it does when both standard deviations are 0.
C22_NeutralMeanBetweenIfSamplesAre ==
  (NeutralPosterior
     /\ \A i \in 1..Len(ret.val.samples) : BetweenMeans(ret.val.samples[i]))
    => BetweenMeans(ret.val.mean)

\* three samples of two sources without spread, whose mean lies strictly
\* between the two estimates
C22_Witness ==
  /\ NeutralPosterior
  /\ call.n_samples = 3
  /\ ret.val.official.std = 0
  /\ ret.val.independent.std = 0
  /\ \A i \in 1..Len(ret.val.samples) : BetweenMeans(ret.val.samples[i])
  /\ ret.val.mean.v > ret.val.official.mean * Scale
  /\ ret.val.mean.v < ret.val.independent.mean * Scale

(* ------------------------------------------------------------------ *)
(* C23                                                                  *)
(* ------------------------------------------------------------------ *)
\* C23: get_contested_metrics_analysis returns six results, the i-th for
\* the i-th metric registered, each with a posterior that is not null, has
\* the skeptical weights (0.3, 0.7) and is computed from 10,000 samples,
\* 3,000 drawn from the official and 7,000 from the independent estimate.
C23_SixSkepticalResults ==
  AnalysisReturned =>
    /\ Len(ret.val.entries) = 6
    /\ Len(imputed) = 6
    /\ \A i \in 1..Len(ret.val.entries) :
         /\ i <= Len(Catalog) /\ i <= Len(imputed)
         /\ ret.val.entries[i].name = Catalog[i].name
         /\ imputed[i].metric_name = Catalog[i].name
         /\ ret.val.entries[i].posterior # None
         /\ ret.val.entries[i].posterior = imputed[i].out.val
         /\ ret.val.entries[i].posterior.official = Catalog[i].official
         /\ ret.val.entries[i].posterior.independent = Catalog[i].independent
         /\ ret.val.entries[i].posterior.weights
              = <<Fin((3 * Scale) \div 10), Fin((7 * Scale) \div 10)>>
         /\ ret.val.entries[i].posterior.n_samples = 10000
         /\ imputed[i].drawn = [n_official |-> 3000, n_independent |-> 7000]

\* the analysis has returned, removals second and family separations last
C23_Witness ==
  /\ AnalysisReturned
  /\ Len(ret.val.entries) = 6
  /\ ret.val.entries[2].name = "Annual Removals"
  /\ ret.val.entries[6].name = "Family Separations (2017-2021)"
  /\ imputed[6].drawn.n_independent = 7000

(* ------------------------------------------------------------------ *)
(* C24                                                                  *)
(* ------------------------------------------------------------------ *)
\* C24: add_contested_metric with a name already registered replaces the
\* earlier entry: an add leaves the registry with the added estimates and
\* bias mode at that name and every other entry as it was, and a posterior
\* computed for a name has the estimates of the entry the registry holds for
\* it and the weights of that entry's bias mode, which no step but an add of
\* that name changes.
C24_LastWriteWins ==
  [][/\ call'.op = "add_contested_metric" =>
          /\ DOMAIN contested_metrics'
               = DOMAIN contested_metrics \cup {call'.metric_name}
          /\ contested_metrics'[call'.metric_name] = call'.metric
          /\ \A m \in DOMAIN contested_metrics \ {call'.metric_name} :
               contested_metrics'[m] = contested_metrics[m]
     /\ call'.op = "compute_posterior" =>
          /\ contested_metrics' = contested_metrics
          /\ (ret'.exc = "none" /\ ret'.val # None) =>
               LET latest == contested_metrics[call'.metric_name]
                   w == Weights(latest.prior_bias)
               IN /\ ret'.val.official = latest.official
                  /\ ret'.val.independent = latest.independent
                  /\ ret'.val.weights = <<Fin(w[1]), Fin(w[2])>>
    ]_vars

\* a name registered before has just been added again with another bias
\* mode and another independent estimate, and the registry holds the new
\* entry
C24_Witness ==
  /\ call.op = "add_contested_metric"
  /\ call.replaced # None
  /\ call.replaced.prior_bias # call.metric.prior_bias
  /\ call.replaced.independent # call.metric.independent
  /\ contested_metrics[call.metric_name] = call.metric

(* ------------------------------------------------------------------ *)
(* C25                                                                  *)
(* ------------------------------------------------------------------ *)
\* the bias labels the weights are written out for
KnownBiases == {"skeptical", "official", "neutral"}

\* C25: a metric registered with a bias label that is none of skeptical,
\* official and neutral is rejected neither by add_contested_metric, which
\* stores it under that label and returns normally, nor by
\* compute_posterior, which for a positive sample count returns a posterior
\* with the neutral weights (0.5, 0.5) and half the samples, rounded down,
\* drawn from the official estimate.
C25_UnknownBiasIsNeutral ==
  /\ (call.op = "add_contested_metric"
        /\ call.metric.prior_bias \notin KnownBiases)
       => /\ ret = Returned(None)
          /\ call.metric_name \in DOMAIN contested_metrics
          /\ contested_metrics[call.metric_name] = call.metric
  /\ (call.op = "compute_posterior"
        /\ call.metric_name \in DOMAIN contested_metrics
        /\ contested_metrics[call.metric_name].prior_bias \notin KnownBiases
        /\ call.n_samples >= 1)
       => /\ ret.exc = "none"
          /\ ret.val # None
          /\ ret.val.weights
               = <<Fin((5 * Scale) \div 10), Fin((5 * Scale) \div 10)>>
          /\ drawn.n_official = call.n_samples \div 2
          /\ drawn.n_independent = call.n_samples - call.n_samples \div 2

\* a posterior of three samples for a metric registered as optimistic
C25_Witness ==
  /\ PosteriorReturned
  /\ contested_metrics[call.metric_name].prior_bias = "optimistic"
  /\ call.n_samples = 3
  /\ ret.val.weights[1] = ret.val.weights[2]
  /\ drawn = [n_official |-> 1, n_independent |-> 2]

(* ------------------------------------------------------------------ *)
(* C26                                                                  *)
(* ------------------------------------------------------------------ *)
\* C26: fit_trend called with a kind that is none of linear, exponential
\* and logistic returns null however many valid points it is given, and
\* impute_missing_years called with such a kind other than auto returns
\* null too; neither raises.
C26_UnknownKindGivesNull ==
  /\ (FitCalled /\ call.model_type \notin DocumentedKinds) => ReturnedNull
  /\ (ImputeCalled /\ call.model_type \notin DocumentedKinds \cup {"auto"})
       => /\ ReturnedNull
          /\ Len(fitted) = 1
          /\ fitted[1].model_type = call.model_type
          /\ fitted[1].out.exc = "none"
          /\ fitted[1].out.val = None

\* impute_missing_years asked for a polynomial over four valid points and
\* for one missing year: the result is null
C26_Witness ==
  /\ ImputeCalled
  /\ call.model_type = "polynomial"
  /\ ValidCount(call.values) = 4
  /\ Len(call.missing_years) = 1
  /\ ReturnedNull

(* ------------------------------------------------------------------ *)
(* C27                                                                  *)
(* ------------------------------------------------------------------ *)
\* impute_missing_years under 'auto' came back without an exception
AutoReturned == ImputeCalled /\ call.model_type = "auto" /\ ret.exc = "none"

\* the candidate of the i-th fit under 'auto' can be accepted: it is a model
\* and its r_squared is a number above -1
Acceptable(i) ==
  /\ fitted[i].out.val # None
  /\ FGt(fitted[i].out.val.r_squared, Fin(-Scale))

\* C27: under 'auto', when the linear and the exponential candidate have
\* equal r_squared the model selected is the linear one, and so it is when
\* the exponential fit fell back to linear; the model selected has an
\* r_squared strictly above -1, and the result is null exactly when neither
\* candidate has, so a candidate whose r_squared is NaN or at most -1 is
\* never selected.
C27_TiesAndFloor ==
  AutoReturned =>
    /\ Len(fitted) = 2
    /\ (ReturnedValue /\ fitted[2].out.val # None
          /\ FEq(fitted[1].out.val.r_squared, fitted[2].out.val.r_squared))
         => /\ ret.val.model = fitted[1].out.val
            /\ ret.val.model.type = "linear"
    /\ (ReturnedValue /\ fitted[2].out.curve_fit \in CaughtByFallback)
         => /\ ret.val.model = fitted[1].out.val
            /\ ret.val.model.type = "linear"
    /\ ReturnedValue =>
         /\ FGt(ret.val.model.r_squared, Fin(-Scale))
         /\ \E i \in 1..2 : Acceptable(i) /\ ret.val.model = fitted[i].out.val
    /\ ReturnedNull <=> \A i \in 1..2 : ~Acceptable(i)

\* the optimizer converged on an exponential whose r_squared equals that of
\* the straight line, and the straight line was selected
C27_Witness ==
  /\ AutoReturned
  /\ ReturnedValue
  /\ fitted[2].out.curve_fit = "converged"
  /\ fitted[2].out.val.type = "exponential"
  /\ FEq(fitted[1].out.val.r_squared, fitted[2].out.val.r_squared)
  /\ ret.val.model.type = "linear"

(* ------------------------------------------------------------------ *)
(* C28                                                                  *)
(* ------------------------------------------------------------------ *)
\* the latest known year whose value is not NaN
LatestValid == MaxSeq(ValidYears)

\* C28: the horizon of the uncertainty growth is the latest of all the
\* known_years passed, those with a NaN value included: every entry has
\* uncertainty_factor 1 + 0.15 * max(0, year - latest known year), and an
\* entry for a year after the latest year with a valid value but not after
\* the latest known year has uncertainty_factor exactly 1.
C28_HorizonCountsNaNYears ==
  ImputationReturned =>
    \A i \in 1..Len(Entries) :
      LET e == Entries[i]
          out == e.year - LatestKnown
      IN /\ IsFin(e.uncertainty_factor)
         /\ e.uncertainty_factor.v * 100 =
              100 * Scale + 15 * Scale * (IF out > 0 THEN out ELSE 0)
         /\ (LatestValid < e.year /\ e.year <= LatestKnown)
              => e.uncertainty_factor = Fin(Scale)

\* the last known year has a NaN value and is the year asked for: its
\* entry is a year past the last valid value and has factor 1
C28_Witness ==
  /\ ImputationReturned
  /\ IsNaN(call.values[Len(call.values)])
  /\ LatestValid < LatestKnown
  /\ Len(Entries) = 1
  /\ Entries[1].year = LatestKnown
  /\ Entries[1].uncertainty_factor = Fin(Scale)

(* ------------------------------------------------------------------ *)
(* C29                                                                  *)
(* ------------------------------------------------------------------ *)
\* the impute_missing_years calls get_obfuscated_metrics should have made:
\* one for each of the two series that has a row, deaths first
SeriesWithRows ==
  (IF call.deaths_data.years # <<>> THEN <<"Deaths in Custody">> ELSE <<>>)
    \o (IF call.budget_data.years # <<>> THEN <<"ICE Budget">> ELSE <<>>)

\* the years of the call c that have a row
Reported(c) == {c.known_years[i] : i \in 1..Len(c.known_years)}

\* the first and the last year of the call c that have a row
FirstReported(c) == CHOOSE y \in Reported(c) : \A z \in Reported(c) : y <= z
LastReported(c) == CHOOSE y \in Reported(c) : \A z \in Reported(c) : z <= y

\* C29: for each series with at least one row get_obfuscated_metrics asks
\* impute_missing_years for the years between the first and the last
\* reported year that have no row and for the year after the last reported
\* year, in ascending order, so for at least one year; when the result is
\* not null it has one entry per year asked for, the last of them with
\* uncertainty_factor 1.15 and all the others with uncertainty_factor 1.
C29_GapsAndNextYear ==
  call.op = "get_obfuscated_metrics" =>
    /\ Len(imputed) = Len(SeriesWithRows)
    /\ \A k \in 1..Len(imputed) :
         LET c == imputed[k]
             asked == c.missing_years
         IN /\ c.metric = SeriesWithRows[k]
            /\ Len(asked) >= 1
            /\ \A i \in 1..(Len(asked) - 1) : asked[i] < asked[i + 1]
            /\ {asked[i] : i \in 1..Len(asked)}
                 = ((FirstReported(c)..LastReported(c)) \ Reported(c))
                     \cup {LastReported(c) + 1}
            /\ GaveResult(c) =>
                 LET p == c.out.val.predictions
                 IN /\ Len(p) = Len(asked)
                    /\ \A i \in 1..Len(p) :
                         /\ p[i].year = asked[i]
                         /\ p[i].uncertainty_factor
                              = IF i = Len(p)
                                  THEN Fin(Scale + (15 * Scale) \div 100)
                                ELSE Fin(Scale)

\* the deaths series has a gap: two years were asked for, the gap and the
\* year after the last row, and the result has factor 1 for the first and
\* 1.15 for the second
C29_Witness ==
  /\ ObfuscatedReturned
  /\ Len(imputed) >= 1
  /\ imputed[1].metric = "Deaths in Custody"
  /\ Len(imputed[1].missing_years) = 2
  /\ imputed[1].missing_years[1] < LastReported(imputed[1])
  /\ GaveResult(imputed[1])
  /\ imputed[1].out.val.predictions[1].uncertainty_factor = Fin(Scale)
  /\ imputed[1].out.val.predictions[2].uncertainty_factor
       = Fin(Scale + (15 * Scale) \div 100)

(* ------------------------------------------------------------------ *)
(* C30                                                                  *)
(* ------------------------------------------------------------------ *)
\* the pairs of the call c whose value is a number
ValidMask(c) == [i \in 1..Len(c.known_values) |-> ~IsNaN(c.known_values[i])]

\* C30: in get_obfuscated_metrics a year whose row holds a null / NaN value
\* is passed as a known year and is not among the years asked for, so a
\* result has no entry for it; the value itself takes no part in the fit:
\* a result needs three other rows with a value, and its model is one that
\* the rows with a value give on their own.
C30_NullRowIsKnownYear ==
  call.op = "get_obfuscated_metrics" =>
    \A k \in 1..Len(imputed) :
      LET c == imputed[k]
          rows == IF c.metric = "Deaths in Custody" THEN call.deaths_data
                  ELSE call.budget_data
      IN /\ c.known_years = rows.years
         /\ c.known_values = rows.values
         /\ \A i \in 1..Len(rows.values) :
              IsNaN(rows.values[i]) =>
                /\ InList(rows.years[i], c.known_years)
                /\ ~InList(rows.years[i], c.missing_years)
                /\ GaveResult(c) =>
                     \A j \in 1..Len(c.out.val.predictions) :
                       c.out.val.predictions[j].year # rows.years[i]
         /\ GaveResult(c) =>
              /\ ValidCount(c.known_values) >= 3
              /\ \E sel \in SelectModel(Keep(c.known_years, ValidMask(c)),
                                         Keep(c.known_values, ValidMask(c)),
                                         "auto") :
                   sel.exc = "none" /\ sel.model = c.out.val.model

\* four rows of deaths, the second with a null value: the other three give
\* a result, whose only entry is for the year after the last row
C30_Witness ==
  /\ ObfuscatedReturned
  /\ Len(call.deaths_data.years) = 4
  /\ IsNaN(call.deaths_data.values[2])
  /\ Len(imputed) >= 1
  /\ imputed[1].metric = "Deaths in Custody"
  /\ GaveResult(imputed[1])
  /\ Len(imputed[1].out.val.predictions) = 1
  /\ imputed[1].out.val.predictions[1].year = call.deaths_data.years[4] + 1

====
